---- MODULE Spec2Model ----
\* The TimeTravel navigation controller (src/unnamed/part_005) as a state machine.
\*
\* Units.  formattedTimestamp() truncates every timestamp to the whole second, so
\* the wall clock and the timestamps kept in the component state are counted in
\* seconds.  Timestamps handed in by the view or by the parent (Moment objects,
\* ISO strings) are "raw": they are counted in milliseconds and pass through
\* formattedTimestamp() before they are stored.  Durations per pixel are real
\* numbers in the source; here they are counted in quarter milliseconds
\* (QPerMs), which makes span/400 and 0.1 * max exact on whole seconds.
EXTENDS Integers, Sequences, FiniteSets, TLC

\* ---------------------------------------------------------------- bounds

\* The wall clock (in seconds) when the component is constructed, and the
\* seconds the model lets it advance after that.
ClockStart == 400
MaxElapsed == 1

\* The interval timers a TimestampTag may start in its life.
MaxTimerId == 7

\* ---------------------------------------------------------------- program constants

\* The JavaScript null / undefined of an absent timestamp.
NULL == -1000000000

\* A text of the input box that is no timestamp.
MALFORMED == -2000000000

\* Quarter milliseconds in a millisecond, milliseconds in a second.
QPerMs == 4
MsPerSecond == 1000
\* moment.duration(500, 'milliseconds'), in ms
MinDurationMs == 500
\* moment.duration(1, 'minute'), in ms
OneMinuteMs == 60000
\* moment.duration(3, 'days'), in ms
ThreeDaysMs == 259200000
\* "the available range takes 400px"
FullRangePx == 400
\* timeScale(now) < 10
StickyThresholdPx == 10
\* defaultProps.rangeMs
DefaultRangeMs == 3600000
\* this.state.timelineWidthPx at construction
InitialWidthPx == 1
\* TimestampTag.defaultProps.intervalMs
DefaultIntervalMs == 15000

\* ---------------------------------------------------------------- inputs

\* The last second the model lets the wall clock reach.
MaxClock == ClockStart + MaxElapsed

\* props.earliestTimestamp (seconds): recent enough for the available span to
\* decide the widest zoom.
EarliestInputs == {0}

\* Raw timestamps (ms) the view and the parent hand in: a few seconds back
\* (within a second), on either side of 10 px from "now" as the zoom goes, and
\* in the future, more than 10 px from "now" at every zoom.
RawTimestampInputs ==
  { (ClockStart - 6) * MsPerSecond + 500,
    (MaxClock + 11) * MsPerSecond }

\* Durations per pixel (quarter ms) the timeline asks for when zooming.
DurationInputs == {1000, 3000, 1500000000}

\* Ranges (ms) of the range selector and widths (px) the timeline reports.
RangeInputs == {900000}
WidthInputs == {1200}

\* Long histories, for the clamps of timestamps and zoom levels.  Seconds are
\* counted from 2020-01-01T00:00:00Z here.
Day == 24 * 3600
TenDays == 10 * Day

\* props.earliestTimestamp (seconds): ten days of history, 100 seconds of it,
\* 1300 days of it (more than 400 px at 3 days per pixel), and a time after
\* "now".
LongEarliestInputs == {0, TenDays - 100, TenDays - 1300 * Day, TenDays + 60}

\* Raw timestamps (ms): before 2020-01-01, five days in (within a second),
\* 50 seconds back, "now" and 90 seconds ahead, "now" being the end of the
\* tenth day.
LongTimestampInputs ==
  { -5000,
    5 * Day * MsPerSecond + 250,
    (TenDays - 50) * MsPerSecond,
    TenDays * MsPerSecond,
    (TenDays + 90) * MsPerSecond }

\* Durations per pixel (quarter ms): 250 ms, 1 minute, 36 minutes (ten days
\* over 400 px) and more than 3 days.
LongDurationInputs ==
  { 250 * QPerMs,
    OneMinuteMs * QPerMs,
    TenDays * ((MsPerSecond * QPerMs) \div FullRangePx),
    ThreeDaysMs * QPerMs + 1000 }

\* Ranges (ms) of the range selector, 15 minutes and a day, and widths (px)
\* the timeline reports.
LongRangeInputs == {900000, 86400000}
LongWidthInputs == {600, 1200}

\* The items of a LookupMenu: labels are texts over the letters a, b, A, B.
Thing1 == [value |-> 1, label |-> <<"A", "b">>]
Thing2 == [value |-> 2, label |-> <<"b", "a">>]
Thing3 == [value |-> 3, label |-> <<"a", "a">>]
Thing4 == [value |-> 4, label |-> <<"a", "B">>]

\* props.items of a LookupMenu, and the texts typed into its search box
ItemLists == { << >>, <<Thing1>>, <<Thing1, Thing2, Thing3>>, <<Thing4, Thing2>> }
QueryInputs == { << >>, <<"B">>, <<"a", "a">>, <<"b", "b">>, <<"a", "b">> }

\* props.intervalMs of a TimestampTag
IntervalInputs == {DefaultIntervalMs, 1000, 60000}

VARIABLES
  clock,                     \* the wall clock, in seconds
  phase,                     \* "constructed", "mounted", "unmounted"
  earliestTimestamp,         \* props.earliestTimestamp
  hasLiveMode,               \* props.hasLiveMode
  propsShowingLive,          \* this.props.showingLive
  propsTimestamp,            \* this.props.timestamp (raw, or NULL)
  callbacksSupplied,         \* the parent supplies the callbacks that have no default
  timestampNow,              \* this.state.*
  focusedTimestamp,
  durationMsPerPixel,
  showingLive,
  rangeMs,
  timelineWidthPx,
  timer,                     \* the setInterval of componentDidMount is active
  delayedOnChangeTimestamp,  \* arguments of the pending debounced calls
  delayedReportZoom,         \* number of pending debounced reportZoom calls
  lastOp,                    \* the operation of the last step of the component
  changeCalls,               \* arguments onChangeTimestamp got in that step
  liveCalls,                 \* arguments onChangeLiveMode got in that step
  raised,                    \* that step ended in a TypeError
  panned,                    \* the clamped timestamp a pan button asked for in that step
  otherCalls,                \* the other callbacks invoked in that step, with their arguments
  expectedChange,            \* the value of the last pan not yet delivered or cancelled
  superseding,               \* the pending call replaced a pending call of another value
  propsItems,                \* LookupMenu: this.props.items
  items,                     \* LookupMenu: this.state.items, the list displayed
  query,                     \* LookupMenu: this.state.query
  softSelectedIndex,         \* LookupMenu: this.state.softSelectedIndex (or NULL)
  menuPhase,                 \* LookupMenu: "constructed", "mounted"
  menuOp,                    \* LookupMenu: the operation of its last step
  menuCalls,                 \* LookupMenu: values props.onChange got in that step
  menuRaised,                \* LookupMenu: that step ended in a TypeError
  tagPhase,                  \* TimestampTag: "constructed", "mounted", "unmounted"
  tagRelative,               \* TimestampTag: this.props.relative
  tagIntervalMs,             \* TimestampTag: this.props.intervalMs
  tagTimer,                  \* TimestampTag: this.timer, an interval id (or NULL)
  intervals,                 \* the intervals set and not cleared: [id, intervalMs]
  nextIntervalId,            \* the id the next setInterval returns
  tagOp                      \* TimestampTag: the operation of its last step

props == <<earliestTimestamp, hasLiveMode, propsShowingLive, propsTimestamp,
           callbacksSupplied>>
state == <<timestampNow, focusedTimestamp, durationMsPerPixel, showingLive,
           rangeMs, timelineWidthPx>>
timeTravel == <<clock, phase, props, state, timer, delayedOnChangeTimestamp,
                delayedReportZoom, lastOp, changeCalls, liveCalls, raised, panned,
                otherCalls, expectedChange, superseding>>
menu == <<propsItems, items, query, softSelectedIndex, menuPhase, menuOp,
          menuCalls, menuRaised>>
tag == <<tagPhase, tagRelative, tagIntervalMs, tagTimer, intervals,
         nextIntervalId, tagOp>>
vars == <<timeTravel, menu, tag>>

\* ---------------------------------------------------------------- pure functions

\* lodash clamp(number, lower, upper)
clamp(number, lower, upper) ==
  LET n == IF number <= upper THEN number ELSE upper
  IN  IF n >= lower THEN n ELSE lower

\* moment(timestamp) of a formatted timestamp: its instant, in ms
moment(timestamp) == timestamp * MsPerSecond

\* utils/timeline formattedTimestamp: the given instant, or the current one,
\* truncated to the second
formattedTimestamp(timestamp) ==
  IF timestamp = NULL THEN clock ELSE timestamp \div MsPerSecond

\* moment(formattedTimestamp()).diff(moment(earliestTimestamp)); both are whole
\* seconds, and the value is carried in seconds (the diff is 1000 times it)
availableTimelineDurationMs(earliest) == clock - earliest

minDurationMsPerTimelinePx == MinDurationMs * QPerMs

\* maxDurationMsPerTimelinePx with the upper bound of
\* initialDurationMsPerTimelinePx, 1 minute, in place of 3 days
maxDurationCappedAtOneMinute(earliest) ==
  clamp(availableTimelineDurationMs(earliest) * ((MsPerSecond * QPerMs) \div FullRangePx),
        minDurationMsPerTimelinePx, OneMinuteMs * QPerMs)

\* clamp(available / 400, min, 3 days): available[ms] / 400 is 10 quarter ms
\* for every available second
maxDurationMsPerTimelinePx(earliest) ==
  clamp(availableTimelineDurationMs(earliest) * ((MsPerSecond * QPerMs) \div FullRangePx),
        minDurationMsPerTimelinePx, ThreeDaysMs * QPerMs)

\* initialDurationMsPerTimelinePx with the cap of 1 minute forgotten
initialDurationUncapped(earliest) ==
  IF maxDurationMsPerTimelinePx(earliest) \div 10 < minDurationMsPerTimelinePx
    THEN minDurationMsPerTimelinePx
    ELSE maxDurationMsPerTimelinePx(earliest) \div 10

\* clamp(0.1 * max, min, 1 minute)
initialDurationMsPerTimelinePx(earliest) ==
  clamp(maxDurationMsPerTimelinePx(earliest) \div 10,
        minDurationMsPerTimelinePx, OneMinuteMs * QPerMs)

\* clampedTimestamp with the test against earliestTimestamp forgotten
clampedTimestampNoFloor(rawTimestamp) ==
  LET timestamp == formattedTimestamp(rawTimestamp)
  IN  IF timestamp > timestampNow THEN timestampNow ELSE timestamp

clampedTimestamp(rawTimestamp) ==
  LET timestamp == formattedTimestamp(rawTimestamp)
      t1 == IF timestamp < earliestTimestamp THEN earliestTimestamp ELSE timestamp
  IN  IF t1 > timestampNow THEN timestampNow ELSE t1

\* clampedDuration with the upper bound forgotten
clampedDurationNoCeiling(duration) ==
  IF duration < minDurationMsPerTimelinePx
    THEN minDurationMsPerTimelinePx
    ELSE duration

clampedDuration(duration) ==
  clamp(duration, minDurationMsPerTimelinePx,
        maxDurationMsPerTimelinePx(earliestTimestamp))

\* utils/timeline getTimeScale({focusedTimestamp, durationMsPerPixel})(t) < px,
\* with pixelOffset(t) = (t - focusedTimestamp) / durationMsPerPixel:
\* (t - f) * 4 / d < px  iff  floor((t - f) * 4 / px) < d  for whole d
timeScaleBelow(focused, duration, t, px) ==
  ((t - focused) * QPerMs) \div px < duration

\* shouldStickySwitchToLiveMode with the hasLiveMode test forgotten
stickySwitchIgnoringLiveMode(nextFocused) ==
  /\ timeScaleBelow(nextFocused, durationMsPerPixel, moment(timestampNow),
                    StickyThresholdPx)
  /\ ~showingLive

\* nextFocused is the raw focusedTimestamp of the hypothetical next state
shouldStickySwitchToLiveMode(nextFocused) ==
  /\ timeScaleBelow(nextFocused, durationMsPerPixel, moment(timestampNow),
                    StickyThresholdPx)
  /\ hasLiveMode
  /\ ~showingLive

\* The spacing of the timeline ticks (px) that reportZoom projects the zoom
\* level over.
MaxTickSpacingPx == 415

\* reportZoom: the coarsest of years, months, weeks, days, hours, minutes and
\* seconds that moment.duration(durationMsPerPixel * MAX_TICK_SPACING_PX) has a
\* whole one of.  Such a duration has as many months as its whole days times
\* 4800 / 146097 (rounded down) and counts its weeks within the days left of
\* the months.  duration is in quarter ms: duration * 415 / 4000 whole seconds.
zoomedPeriod(duration) ==
  LET seconds == (duration \div 800) * (MaxTickSpacingPx \div 5)
                   + ((duration % 800) * (MaxTickSpacingPx \div 5)) \div 800
      days == seconds \div Day
      months == (days * 4800) \div 146097
  IN  CASE months >= 12 -> "years"
        [] months \in 1..11 -> "months"
        [] months = 0 /\ days >= 7 -> "weeks"
        [] months = 0 /\ days \in 1..6 -> "days"
        [] days = 0 /\ seconds >= 3600 -> "hours"
        [] days = 0 /\ seconds \in 60..3599 -> "minutes"
        [] days = 0 /\ seconds \in 1..59 -> "seconds"
        [] OTHER -> "undefined"

\* ---------------------------------------------------------------- lodash debounce

\* debounced(arg): the trailing call replaces the pending one
debounceCall(pending, arg) == <<arg>>

\* debounced.cancel()
debounceCancel(pending) == << >>

\* ---------------------------------------------------------------- the component
\*
\* Every handler is an operation of the component, whatever the rendered view
\* offers at the time.  The calls of onChangeTimestamp and onChangeLiveMode made
\* in a step are recorded in changeCalls and liveCalls.  A handler that calls a
\* prop that is undefined ends in a TypeError, recorded in raised; the call is
\* the last statement of every handler, so the state updates before it stand.

\* LookupMenu constructor(props)
LookupMenuConstructor(list) ==
  /\ propsItems = list
  /\ items = << >>
  /\ query = << >>
  /\ softSelectedIndex = NULL
  /\ menuPhase = "constructed"
  /\ menuOp = "constructor"
  /\ menuCalls = << >>
  /\ menuRaised = FALSE

\* TimestampTag as constructed: the class sets no field, this.timer is
\* undefined
TimestampTagConstructor(relative, intervalMs) ==
  /\ tagPhase = "constructed"
  /\ tagRelative = relative
  /\ tagIntervalMs = intervalMs
  /\ tagTimer = NULL
  /\ intervals = {}
  /\ nextIntervalId = 1
  /\ tagOp = "constructor"

\* constructor(props): props.timestamp may be null
Init ==
  /\ clock = ClockStart
  /\ phase = "constructed"
  /\ earliestTimestamp \in EarliestInputs
  /\ hasLiveMode \in BOOLEAN
  /\ propsShowingLive \in BOOLEAN
  /\ timestampNow = clock
  /\ propsTimestamp \in RawTimestampInputs \cup {NULL}
  /\ callbacksSupplied = TRUE
  /\ focusedTimestamp = formattedTimestamp(propsTimestamp)
  /\ durationMsPerPixel = initialDurationMsPerTimelinePx(earliestTimestamp)
  /\ showingLive = propsShowingLive
  /\ rangeMs = DefaultRangeMs
  /\ timelineWidthPx = InitialWidthPx
  /\ timer = FALSE
  /\ delayedOnChangeTimestamp = << >>
  /\ delayedReportZoom = 0
  /\ lastOp = "constructor"
  /\ raised = FALSE
  /\ panned = NULL
  /\ otherCalls = << >>
  /\ changeCalls = << >>
  /\ liveCalls = << >>
  /\ expectedChange = NULL
  /\ superseding = FALSE
  /\ LookupMenuConstructor(<< >>)
  /\ TimestampTagConstructor(FALSE, DefaultIntervalMs)

\* constructor(props) of <TimeTravel timestamp={...} onChangeTimestamp={...} />:
\* every other prop is left at its value of TimeTravel.defaultProps, and the
\* callbacks that have no entry there (onChangeRange, onChangeLiveMode,
\* onTimelinePanButtonClick, onTimelineLabelClick) are undefined
InitDefaultProps ==
  /\ clock = ClockStart
  /\ phase = "constructed"
  /\ earliestTimestamp \in EarliestInputs
  /\ hasLiveMode = FALSE
  /\ propsShowingLive = TRUE
  /\ timestampNow = clock
  /\ propsTimestamp \in RawTimestampInputs \cup {NULL}
  /\ callbacksSupplied = FALSE
  /\ focusedTimestamp = formattedTimestamp(propsTimestamp)
  /\ durationMsPerPixel = initialDurationMsPerTimelinePx(earliestTimestamp)
  /\ showingLive = propsShowingLive
  /\ rangeMs = DefaultRangeMs
  /\ timelineWidthPx = InitialWidthPx
  /\ timer = FALSE
  /\ delayedOnChangeTimestamp = << >>
  /\ delayedReportZoom = 0
  /\ lastOp = "constructor"
  /\ raised = FALSE
  /\ panned = NULL
  /\ otherCalls = << >>
  /\ changeCalls = << >>
  /\ liveCalls = << >>
  /\ expectedChange = NULL
  /\ superseding = FALSE
  /\ LookupMenuConstructor(<< >>)
  /\ TimestampTagConstructor(FALSE, DefaultIntervalMs)

\* constructor(props) at the end of the tenth day, on a long or short history,
\* without live mode and with no timestamp prop
InitLongHistory ==
  /\ clock = TenDays
  /\ phase = "constructed"
  /\ earliestTimestamp \in LongEarliestInputs
  /\ hasLiveMode = FALSE
  /\ propsShowingLive = FALSE
  /\ timestampNow = clock
  /\ propsTimestamp = NULL
  /\ callbacksSupplied = TRUE
  /\ focusedTimestamp = formattedTimestamp(propsTimestamp)
  /\ durationMsPerPixel = initialDurationMsPerTimelinePx(earliestTimestamp)
  /\ showingLive = propsShowingLive
  /\ rangeMs = DefaultRangeMs
  /\ timelineWidthPx = InitialWidthPx
  /\ timer = FALSE
  /\ delayedOnChangeTimestamp = << >>
  /\ delayedReportZoom = 0
  /\ lastOp = "constructor"
  /\ raised = FALSE
  /\ panned = NULL
  /\ otherCalls = << >>
  /\ changeCalls = << >>
  /\ liveCalls = << >>
  /\ expectedChange = NULL
  /\ superseding = FALSE
  /\ LookupMenuConstructor(<< >>)
  /\ TimestampTagConstructor(FALSE, DefaultIntervalMs)

\* Time passes.
ClockAdvance ==
  /\ clock < MaxClock
  /\ clock' = clock + 1
  /\ UNCHANGED <<phase, props, state, timer, delayedOnChangeTimestamp,
                 delayedReportZoom, lastOp, changeCalls, liveCalls, raised,
                 panned, otherCalls, expectedChange, superseding, menu, tag>>

componentDidMount ==
  /\ phase = "constructed"
  /\ phase' = "mounted"
  /\ timer' = TRUE
  /\ lastOp' = "mount"
  /\ raised' = FALSE
  /\ otherCalls' = << >>
  /\ panned' = NULL
  /\ UNCHANGED <<menu, tag>>
  /\ changeCalls' = << >>
  /\ liveCalls' = << >>
  /\ UNCHANGED <<clock, props, state, delayedOnChangeTimestamp,
                 delayedReportZoom, expectedChange, superseding>>

\* The interval callback with the live-mode update of focusedTimestamp forgotten
TickWithoutFollow ==
  /\ timer
  /\ timestampNow' = formattedTimestamp(NULL)
  /\ lastOp' = "tick"
  /\ raised' = FALSE
  /\ otherCalls' = << >>
  /\ panned' = NULL
  /\ UNCHANGED <<menu, tag>>
  /\ changeCalls' = << >>
  /\ liveCalls' = << >>
  /\ UNCHANGED <<clock, phase, props, focusedTimestamp, durationMsPerPixel,
                 showingLive, rangeMs, timelineWidthPx, timer,
                 delayedOnChangeTimestamp, delayedReportZoom, expectedChange,
                 superseding>>

\* The interval callback going through setFocusedTimestamp in live mode: it
\* cancels the Change channel and calls onChangeTimestamp
TickNotifying ==
  /\ timer
  /\ timestampNow' = formattedTimestamp(NULL)
  /\ IF hasLiveMode /\ showingLive /\ formattedTimestamp(NULL) # focusedTimestamp
       THEN /\ focusedTimestamp' = formattedTimestamp(NULL)
            /\ changeCalls' = <<formattedTimestamp(NULL)>>
            /\ delayedOnChangeTimestamp' = debounceCancel(delayedOnChangeTimestamp)
            /\ expectedChange' = NULL
            /\ superseding' = FALSE
       ELSE /\ changeCalls' = << >>
            /\ UNCHANGED <<focusedTimestamp, delayedOnChangeTimestamp,
                           expectedChange, superseding>>
  /\ lastOp' = "tick"
  /\ raised' = FALSE
  /\ otherCalls' = << >>
  /\ panned' = NULL
  /\ UNCHANGED <<menu, tag>>
  /\ liveCalls' = << >>
  /\ UNCHANGED <<clock, phase, props, durationMsPerPixel, showingLive, rangeMs,
                 timelineWidthPx, timer, delayedReportZoom>>

\* The setInterval callback of componentDidMount.
Tick ==
  /\ timer
  /\ timestampNow' = formattedTimestamp(NULL)
  /\ focusedTimestamp' = IF hasLiveMode /\ showingLive
                           THEN formattedTimestamp(NULL)
                           ELSE focusedTimestamp
  /\ lastOp' = "tick"
  /\ raised' = FALSE
  /\ otherCalls' = << >>
  /\ panned' = NULL
  /\ UNCHANGED <<menu, tag>>
  /\ changeCalls' = << >>
  /\ liveCalls' = << >>
  /\ UNCHANGED <<clock, phase, props, durationMsPerPixel, showingLive, rangeMs,
                 timelineWidthPx, timer, delayedOnChangeTimestamp,
                 delayedReportZoom, expectedChange, superseding>>

componentWillReceiveProps(nextTimestamp, nextShowingLive, nextRangeMs) ==
  /\ phase = "mounted"
  /\ propsShowingLive' = nextShowingLive
  /\ propsTimestamp' = nextTimestamp
  /\ IF \/ hasLiveMode /\ nextShowingLive
        \/ ~nextShowingLive /\ propsShowingLive
        \/ nextTimestamp = NULL
       THEN UNCHANGED <<focusedTimestamp, rangeMs>>
       ELSE /\ focusedTimestamp' = formattedTimestamp(nextTimestamp)
            /\ rangeMs' = nextRangeMs
  /\ lastOp' = "props"
  /\ raised' = FALSE
  /\ otherCalls' = << >>
  /\ panned' = NULL
  /\ UNCHANGED <<menu, tag>>
  /\ changeCalls' = << >>
  /\ liveCalls' = << >>
  /\ UNCHANGED <<clock, phase, earliestTimestamp, hasLiveMode, callbacksSupplied,
                 timestampNow,
                 durationMsPerPixel, showingLive, timelineWidthPx, timer,
                 delayedOnChangeTimestamp, delayedReportZoom, expectedChange, superseding>>

\* componentWillUnmount with the clearInterval forgotten
componentWillUnmountKeepingTimer ==
  /\ phase = "mounted"
  /\ phase' = "unmounted"
  /\ lastOp' = "unmount"
  /\ raised' = FALSE
  /\ otherCalls' = << >>
  /\ panned' = NULL
  /\ UNCHANGED <<menu, tag>>
  /\ changeCalls' = << >>
  /\ liveCalls' = << >>
  /\ UNCHANGED <<clock, props, state, timer, delayedOnChangeTimestamp,
                 delayedReportZoom, expectedChange, superseding>>

componentWillUnmount ==
  /\ phase = "mounted"
  /\ phase' = "unmounted"
  /\ timer' = FALSE
  /\ lastOp' = "unmount"
  /\ raised' = FALSE
  /\ otherCalls' = << >>
  /\ panned' = NULL
  /\ UNCHANGED <<menu, tag>>
  /\ changeCalls' = << >>
  /\ liveCalls' = << >>
  /\ UNCHANGED <<clock, props, state, delayedOnChangeTimestamp,
                 delayedReportZoom, expectedChange, superseding>>

\* setFocusedTimestamp with the comparison against this.state.focusedTimestamp
\* forgotten: every call cancels, delivers and commits
setFocusedTimestampUncompared(timestamp) ==
  /\ delayedOnChangeTimestamp' = debounceCancel(delayedOnChangeTimestamp)
  /\ expectedChange' = NULL
  /\ superseding' = FALSE
  /\ changeCalls' = <<clampedTimestamp(timestamp)>>
  /\ focusedTimestamp' = clampedTimestamp(timestamp)

\* setFocusedTimestamp(timestamp): decides focusedTimestamp, the Change channel
\* and the onChangeTimestamp calls of the step
setFocusedTimestamp(timestamp) ==
  LET focused == clampedTimestamp(timestamp)
  IN  IF focused # focusedTimestamp
        THEN /\ delayedOnChangeTimestamp' = debounceCancel(delayedOnChangeTimestamp)
             /\ expectedChange' = NULL
             /\ superseding' = FALSE
             /\ changeCalls' = <<focused>>
             /\ focusedTimestamp' = focused
        ELSE /\ changeCalls' = << >>
             /\ UNCHANGED <<delayedOnChangeTimestamp, expectedChange, superseding,
                            focusedTimestamp>>

\* handleRangeChange laying the range over the whole timeline, not a third
handleRangeChangeWholeWidth(range) ==
  /\ phase = "mounted"
  /\ rangeMs' = range
  /\ durationMsPerPixel' = clampedDuration((range * QPerMs) \div timelineWidthPx)
  /\ lastOp' = "setRange"
  /\ raised' = ~callbacksSupplied
  /\ otherCalls' = IF callbacksSupplied
                     THEN <<<<"onChangeRange", range>>>>
                     ELSE << >>
  /\ panned' = NULL
  /\ UNCHANGED <<menu, tag>>
  /\ changeCalls' = << >>
  /\ liveCalls' = << >>
  /\ UNCHANGED <<clock, phase, props, timestampNow, focusedTimestamp, showingLive,
                 timelineWidthPx, timer, delayedOnChangeTimestamp,
                 delayedReportZoom, expectedChange, superseding>>

handleRangeChange(range) ==
  /\ phase = "mounted"
  /\ rangeMs' = range
  /\ durationMsPerPixel' = clampedDuration((3 * range * QPerMs) \div timelineWidthPx)
  /\ lastOp' = "setRange"
  /\ raised' = ~callbacksSupplied
  /\ otherCalls' = IF callbacksSupplied
                     THEN <<<<"onChangeRange", range>>>>
                     ELSE << >>
  /\ panned' = NULL
  /\ UNCHANGED <<menu, tag>>
  /\ changeCalls' = << >>
  /\ liveCalls' = << >>
  /\ UNCHANGED <<clock, phase, props, timestampNow, focusedTimestamp, showingLive,
                 timelineWidthPx, timer, delayedOnChangeTimestamp,
                 delayedReportZoom, expectedChange, superseding>>

handleInputChange(timestamp) ==
  /\ phase = "mounted"
  /\ setFocusedTimestamp(timestamp)
  /\ lastOp' = "input"
  /\ raised' = FALSE
  /\ otherCalls' = <<<<"onTimestampInputEdit">>>>
  /\ panned' = NULL
  /\ UNCHANGED <<menu, tag>>
  /\ liveCalls' = << >>
  /\ UNCHANGED <<clock, phase, props, timestampNow, durationMsPerPixel,
                 showingLive, rangeMs, timelineWidthPx, timer, delayedReportZoom>>

\* The change handler of the input box with the validity test forgotten: an
\* unparseable text is handed on like an absent timestamp
TimestampInputChangeUnchecked(text) ==
  handleInputChange(IF text = MALFORMED THEN NULL ELSE text)

\* TimestampInput, the input box of render(): its change handler hands the
\* timestamp typed to its onChangeTimestamp, which is handleInputChange, and
\* keeps a malformed or unparseable text to itself
TimestampInputChange(text) ==
  IF text = MALFORMED
    THEN /\ phase = "mounted"
         /\ lastOp' = "inputRejected"
         /\ raised' = FALSE
         /\ otherCalls' = << >>
         /\ panned' = NULL
         /\ UNCHANGED <<menu, tag>>
         /\ changeCalls' = << >>
         /\ liveCalls' = << >>
         /\ UNCHANGED <<clock, phase, props, state, timer,
                        delayedOnChangeTimestamp, delayedReportZoom,
                        expectedChange, superseding>>
    ELSE handleInputChange(text)

handleTimelineJump(timestamp) ==
  /\ phase = "mounted"
  /\ showingLive' = FALSE
  /\ setFocusedTimestamp(timestamp)
  /\ lastOp' = "jump"
  /\ raised' = ~callbacksSupplied
  /\ otherCalls' = IF callbacksSupplied
                     THEN <<<<"onTimelineLabelClick">>>>
                     ELSE << >>
  /\ panned' = NULL
  /\ UNCHANGED <<menu, tag>>
  /\ liveCalls' = << >>
  /\ UNCHANGED <<clock, phase, props, timestampNow, durationMsPerPixel, rangeMs,
                 timelineWidthPx, timer, delayedReportZoom>>

\* handleTimelinePanButtonClick with the sticky switch forgotten: the panned
\* timestamp is always committed
handleTimelinePanButtonClickNoSwitch(timestamp) ==
  /\ phase = "mounted"
  /\ showingLive' = FALSE
  /\ setFocusedTimestamp(timestamp)
  /\ lastOp' = "panButton"
  /\ raised' = ~callbacksSupplied
  /\ otherCalls' = IF callbacksSupplied
                     THEN <<<<"onTimelinePanButtonClick">>>>
                     ELSE << >>
  /\ panned' = clampedTimestamp(timestamp)
  /\ UNCHANGED <<menu, tag>>
  /\ liveCalls' = << >>
  /\ UNCHANGED <<clock, phase, props, timestampNow, durationMsPerPixel, rangeMs,
                 timelineWidthPx, timer, delayedReportZoom>>

handleTimelinePanButtonClick(timestamp) ==
  /\ phase = "mounted"
  /\ IF shouldStickySwitchToLiveMode(timestamp)
       THEN /\ showingLive' = TRUE
            /\ setFocusedTimestamp(moment(timestampNow))
       ELSE /\ showingLive' = FALSE
            /\ setFocusedTimestamp(timestamp)
  /\ lastOp' = "panButton"
  /\ raised' = ~callbacksSupplied
  /\ otherCalls' = IF callbacksSupplied
                     THEN <<<<"onTimelinePanButtonClick">>>>
                     ELSE << >>
  /\ panned' = clampedTimestamp(timestamp)
  /\ UNCHANGED <<menu, tag>>
  /\ liveCalls' = << >>
  /\ UNCHANGED <<clock, phase, props, timestampNow, durationMsPerPixel, rangeMs,
                 timelineWidthPx, timer, delayedReportZoom>>

\* handleTimelineZoom with one timer for both channels: arming the report
\* drops the pending onChangeTimestamp call
handleTimelineZoomSharingTimer(duration) ==
  /\ phase = "mounted"
  /\ durationMsPerPixel' = clampedDuration(duration)
  /\ delayedReportZoom' = 1
  /\ delayedOnChangeTimestamp' = debounceCancel(delayedOnChangeTimestamp)
  /\ lastOp' = "zoom"
  /\ raised' = FALSE
  /\ otherCalls' = << >>
  /\ panned' = NULL
  /\ UNCHANGED <<menu, tag>>
  /\ changeCalls' = << >>
  /\ liveCalls' = << >>
  /\ UNCHANGED <<clock, phase, props, timestampNow, focusedTimestamp, showingLive,
                 rangeMs, timelineWidthPx, timer, expectedChange, superseding>>

handleTimelineZoom(duration) ==
  /\ phase = "mounted"
  /\ durationMsPerPixel' = clampedDuration(duration)
  /\ delayedReportZoom' = 1
  /\ lastOp' = "zoom"
  /\ raised' = FALSE
  /\ otherCalls' = << >>
  /\ panned' = NULL
  /\ UNCHANGED <<menu, tag>>
  /\ changeCalls' = << >>
  /\ liveCalls' = << >>
  /\ UNCHANGED <<clock, phase, props, timestampNow, focusedTimestamp, showingLive,
                 rangeMs, timelineWidthPx, timer, delayedOnChangeTimestamp, expectedChange, superseding>>

\* handleTimelinePan running the sticky switch of handleTimelinePanButtonClick
\* while the timeline is dragged
handleTimelinePanSticky(timestamp) ==
  /\ phase = "mounted"
  /\ IF shouldStickySwitchToLiveMode(timestamp)
       THEN /\ showingLive' = TRUE
            /\ setFocusedTimestamp(moment(timestampNow))
       ELSE /\ showingLive' = FALSE
            /\ focusedTimestamp' = clampedTimestamp(timestamp)
            /\ delayedOnChangeTimestamp' =
                 debounceCall(delayedOnChangeTimestamp, clampedTimestamp(timestamp))
            /\ expectedChange' = clampedTimestamp(timestamp)
            /\ superseding' = FALSE
            /\ changeCalls' = << >>
  /\ lastOp' = "pan"
  /\ raised' = FALSE
  /\ otherCalls' = << >>
  /\ panned' = NULL
  /\ UNCHANGED <<menu, tag>>
  /\ liveCalls' = << >>
  /\ UNCHANGED <<clock, phase, props, timestampNow, durationMsPerPixel, rangeMs,
                 timelineWidthPx, timer, delayedReportZoom>>

\* handleTimelinePan calling this.props.onChangeTimestamp instead of the
\* debounced delayedOnChangeTimestamp
handleTimelinePanUndebounced(timestamp) ==
  /\ phase = "mounted"
  /\ showingLive' = FALSE
  /\ focusedTimestamp' = clampedTimestamp(timestamp)
  /\ expectedChange' = clampedTimestamp(timestamp)
  /\ lastOp' = "pan"
  /\ raised' = FALSE
  /\ otherCalls' = << >>
  /\ panned' = NULL
  /\ UNCHANGED <<menu, tag>>
  /\ changeCalls' = <<clampedTimestamp(timestamp)>>
  /\ liveCalls' = << >>
  /\ UNCHANGED <<clock, phase, props, timestampNow, durationMsPerPixel, rangeMs,
                 timelineWidthPx, timer, delayedOnChangeTimestamp,
                 delayedReportZoom, superseding>>

handleTimelinePan(timestamp) ==
  /\ phase = "mounted"
  /\ showingLive' = FALSE
  /\ focusedTimestamp' = clampedTimestamp(timestamp)
  /\ delayedOnChangeTimestamp' =
       debounceCall(delayedOnChangeTimestamp, clampedTimestamp(timestamp))
  /\ expectedChange' = clampedTimestamp(timestamp)
  /\ superseding' = IF delayedOnChangeTimestamp = << >>
                      THEN FALSE
                      ELSE \/ superseding
                           \/ expectedChange # clampedTimestamp(timestamp)
  /\ lastOp' = "pan"
  /\ raised' = FALSE
  /\ otherCalls' = << >>
  /\ panned' = NULL
  /\ UNCHANGED <<menu, tag>>
  /\ changeCalls' = << >>
  /\ liveCalls' = << >>
  /\ UNCHANGED <<clock, phase, props, timestampNow, durationMsPerPixel, rangeMs,
                 timelineWidthPx, timer, delayedReportZoom>>

handleTimelineRelease ==
  /\ phase = "mounted"
  /\ IF shouldStickySwitchToLiveMode(moment(focusedTimestamp))
       THEN /\ showingLive' = TRUE
            /\ setFocusedTimestamp(moment(timestampNow))
       ELSE /\ changeCalls' = << >>
            /\ UNCHANGED <<showingLive, focusedTimestamp,
                           delayedOnChangeTimestamp, expectedChange, superseding>>
  /\ lastOp' = "panRelease"
  /\ raised' = FALSE
  /\ otherCalls' = <<<<"onTimelinePan">>>>
  /\ panned' = NULL
  /\ UNCHANGED <<menu, tag>>
  /\ liveCalls' = << >>
  /\ UNCHANGED <<clock, phase, props, timestampNow, durationMsPerPixel, rangeMs,
                 timelineWidthPx, timer, delayedReportZoom>>

handleTimelineResize(width) ==
  /\ phase = "mounted"
  /\ timelineWidthPx' = width
  /\ lastOp' = "resize"
  /\ raised' = FALSE
  /\ otherCalls' = << >>
  /\ panned' = NULL
  /\ UNCHANGED <<menu, tag>>
  /\ changeCalls' = << >>
  /\ liveCalls' = << >>
  /\ UNCHANGED <<clock, phase, props, timestampNow, focusedTimestamp,
                 durationMsPerPixel, showingLive, rangeMs, timer,
                 delayedOnChangeTimestamp, delayedReportZoom, expectedChange, superseding>>

handleLiveModeToggle(live) ==
  /\ phase = "mounted"
  /\ showingLive' = live
  /\ focusedTimestamp' = IF live THEN timestampNow ELSE focusedTimestamp
  /\ liveCalls' = IF callbacksSupplied THEN <<live>> ELSE << >>
  /\ lastOp' = "toggleLive"
  /\ raised' = ~callbacksSupplied
  /\ otherCalls' = << >>
  /\ panned' = NULL
  /\ UNCHANGED <<menu, tag>>
  /\ changeCalls' = << >>
  /\ UNCHANGED <<clock, phase, props, timestampNow, durationMsPerPixel, rangeMs,
                 timelineWidthPx, timer, delayedOnChangeTimestamp,
                 delayedReportZoom, expectedChange, superseding>>

\* The 500 ms timer of delayedOnChangeTimestamp expires.
FireOnChangeTimestamp ==
  /\ delayedOnChangeTimestamp # << >>
  /\ changeCalls' = <<Head(delayedOnChangeTimestamp)>>
  /\ delayedOnChangeTimestamp' = Tail(delayedOnChangeTimestamp)
  /\ lastOp' = "fireChange"
  /\ raised' = FALSE
  /\ otherCalls' = << >>
  /\ panned' = NULL
  /\ UNCHANGED <<menu, tag>>
  /\ liveCalls' = << >>
  /\ expectedChange' = NULL
  /\ superseding' = FALSE
  /\ UNCHANGED <<clock, phase, props, state, timer, delayedReportZoom>>

\* reportZoom reading the zoom level the component was constructed with, not
\* this.state.durationMsPerPixel
FireReportZoomOfInitialZoom ==
  /\ delayedReportZoom > 0
  /\ delayedReportZoom' = delayedReportZoom - 1
  /\ lastOp' = "fireZoom"
  /\ raised' = FALSE
  /\ otherCalls' = <<<<"onTimelineZoom",
                       zoomedPeriod(initialDurationMsPerTimelinePx(earliestTimestamp))>>>>
  /\ panned' = NULL
  /\ UNCHANGED <<menu, tag>>
  /\ changeCalls' = << >>
  /\ liveCalls' = << >>
  /\ UNCHANGED <<clock, phase, props, state, timer, delayedOnChangeTimestamp,
                 expectedChange, superseding>>

\* The 5000 ms timer of delayedReportZoom expires: reportZoom().
FireReportZoom ==
  /\ delayedReportZoom > 0
  /\ delayedReportZoom' = delayedReportZoom - 1
  /\ lastOp' = "fireZoom"
  /\ raised' = FALSE
  /\ otherCalls' = <<<<"onTimelineZoom", zoomedPeriod(durationMsPerPixel)>>>>
  /\ panned' = NULL
  /\ UNCHANGED <<menu, tag>>
  /\ changeCalls' = << >>
  /\ liveCalls' = << >>
  /\ UNCHANGED <<clock, phase, props, state, timer, delayedOnChangeTimestamp,
                 expectedChange, superseding>>

Next ==
  \/ ClockAdvance
  \/ componentDidMount
  \/ Tick
  \/ \E t \in RawTimestampInputs \cup {NULL}, live \in BOOLEAN, r \in RangeInputs :
       componentWillReceiveProps(t, live, r)
  \/ componentWillUnmount
  \/ \E r \in RangeInputs : handleRangeChange(r)
  \/ \E text \in RawTimestampInputs \cup {MALFORMED} : TimestampInputChange(text)
  \/ \E t \in RawTimestampInputs : handleTimelineJump(t)
  \/ \E t \in RawTimestampInputs : handleTimelinePanButtonClick(t)
  \/ \E d \in DurationInputs : handleTimelineZoom(d)
  \/ \E t \in RawTimestampInputs : handleTimelinePan(t)
  \/ handleTimelineRelease
  \/ \E w \in WidthInputs : handleTimelineResize(w)
  \/ \E live \in BOOLEAN : handleLiveModeToggle(live)
  \/ FireOnChangeTimestamp
  \/ FireReportZoom

Spec == Init /\ [][Next]_vars

\* The component with only onChangeTimestamp supplied.
SpecDefaultProps == InitDefaultProps /\ [][Next]_vars

\* The operations that clamp a timestamp or a zoom level, on long histories.
NextLongHistory ==
  \/ componentDidMount
  \/ \E t \in LongTimestampInputs : handleTimelineJump(t)
  \/ \E d \in LongDurationInputs : handleTimelineZoom(d)
  \/ \E t \in LongTimestampInputs : handleTimelinePan(t)
  \/ \E r \in LongRangeInputs : handleRangeChange(r)
  \/ \E w \in LongWidthInputs : handleTimelineResize(w)
  \/ FireOnChangeTimestamp
  \/ FireReportZoom

SpecLongHistory == InitLongHistory /\ [][NextLongHistory]_vars

\* ---------------------------------------------------------------- LookupMenu
\*
\* The searchable menu of src/unnamed/part_003 (part_002 is the same component
\* without state.query).  props.onChange is taken to be supplied.

\* The item shown when no label matches the query.
NoItemsFound == [value |-> NULL, label |-> <<"-">>]

\* String.prototype.toLowerCase, on texts of letters: every capital becomes
\* its small letter
toLowerCase(text) ==
  [i \in 1..Len(text) |->
     CASE text[i] = "A" -> "a"
       [] text[i] = "B" -> "b"
       [] OTHER -> text[i]]

\* lodash words, on texts of letters: a word begins at every capital that
\* follows a small letter ("aB" is "a", "B") and at the last capital of a run
\* of capitals that a small letter follows ("ABa" is "A", "Ba")
beginsWord(text, i) ==
  /\ i > 1
  /\ text[i] \in {"A", "B"}
  /\ \/ text[i - 1] \notin {"A", "B"}
     \/ i < Len(text) /\ text[i + 1] \notin {"A", "B"}

\* lodash lowerCase, on texts of letters: the words of the text in small
\* letters, joined by spaces ('fooBar' becomes 'foo bar')
RECURSIVE lowerCaseFrom(_, _)
lowerCaseFrom(text, i) ==
  IF i > Len(text)
    THEN << >>
    ELSE (IF beginsWord(text, i) THEN <<" ">> ELSE << >>)
           \o toLowerCase(<<text[i]>>) \o lowerCaseFrom(text, i + 1)

lowerCase(text) == lowerCaseFrom(text, 1)

\* lodash includes(text, part): part occurs in text
includes(text, part) ==
  \E i \in 0..(Len(text) - Len(part)) : SubSeq(text, i + 1, i + Len(part)) = part

\* lodash filter(list, i => includes(lowerCase(i.label), lowerCase(q)))
RECURSIVE filterByLabel(_, _)
filterByLabel(list, q) ==
  IF list = << >>
    THEN << >>
    ELSE IF includes(lowerCase(Head(list).label), lowerCase(q))
           THEN <<Head(list)>> \o filterByLabel(Tail(list), q)
           ELSE filterByLabel(Tail(list), q)

\* the function filterItems(items, query)
filterItems(list, q) ==
  IF q = << >>
    THEN list
    ELSE IF filterByLabel(list, q) = << >>
           THEN <<NoItemsFound>>
           ELSE filterByLabel(list, q)

\* moveSoftSelect({softSelectedIndex, items}, amt); indices count from 0
moveSoftSelect(index, list, amt) ==
  LET next == IF index # NULL THEN index + amt ELSE 0
  IN  IF next > Len(list) - 1
        THEN index
        ELSE IF next < 0 THEN 0 ELSE next

\* the method filterItems({items}, query): the setState of state.items
LookupMenuFilterItems(list, q) ==
  items' = IF q # << >> THEN filterItems(list, q) ELSE list

LookupMenuDidMount ==
  /\ menuPhase = "constructed"
  /\ menuPhase' = "mounted"
  /\ LookupMenuFilterItems(propsItems, << >>)
  /\ menuOp' = "mount"
  /\ menuCalls' = << >>
  /\ menuRaised' = FALSE
  /\ UNCHANGED <<propsItems, query, softSelectedIndex, timeTravel, tag>>

LookupMenuWillReceiveProps(nextItems) ==
  /\ menuPhase = "mounted"
  /\ propsItems' = nextItems
  /\ LookupMenuFilterItems(nextItems, query)
  /\ menuOp' = "props"
  /\ menuCalls' = << >>
  /\ menuRaised' = FALSE
  /\ UNCHANGED <<query, softSelectedIndex, menuPhase, timeTravel, tag>>

handleSearch(value) ==
  /\ menuPhase = "mounted"
  /\ query' = value
  /\ LookupMenuFilterItems(propsItems, value)
  /\ menuOp' = "search"
  /\ menuCalls' = << >>
  /\ menuRaised' = FALSE
  /\ UNCHANGED <<propsItems, softSelectedIndex, menuPhase, timeTravel, tag>>

\* handleKeyboardNavigation(ev), for ev.key in ArrowDown, ArrowUp, Enter, Escape:
\* Enter reads items[softSelectedIndex].value and Escape calls
\* this.handleToggle, which the class does not define
handleKeyboardNavigation(key) ==
  /\ menuPhase = "mounted"
  /\ softSelectedIndex' =
       CASE key = "ArrowDown" -> moveSoftSelect(softSelectedIndex, items, 1)
         [] key = "ArrowUp" -> moveSoftSelect(softSelectedIndex, items, -1)
         [] OTHER -> softSelectedIndex
  /\ LET selected == /\ softSelectedIndex # NULL
                      /\ softSelectedIndex >= 0
                      /\ softSelectedIndex <= Len(items) - 1
     IN  /\ menuCalls' = IF key = "Enter" /\ selected
                           THEN <<items[softSelectedIndex + 1].value>>
                           ELSE << >>
         /\ menuRaised' = \/ key = "Enter" /\ ~selected
                          \/ key = "Escape"
  /\ menuOp' = key
  /\ UNCHANGED <<propsItems, items, query, menuPhase, timeTravel, tag>>

\* A page with a LookupMenu beside a TimeTravel left as constructed.
InitLookupMenu ==
  /\ clock = ClockStart
  /\ phase = "constructed"
  /\ earliestTimestamp \in EarliestInputs
  /\ hasLiveMode = FALSE
  /\ propsShowingLive = TRUE
  /\ timestampNow = clock
  /\ propsTimestamp = NULL
  /\ callbacksSupplied = TRUE
  /\ focusedTimestamp = formattedTimestamp(propsTimestamp)
  /\ durationMsPerPixel = initialDurationMsPerTimelinePx(earliestTimestamp)
  /\ showingLive = propsShowingLive
  /\ rangeMs = DefaultRangeMs
  /\ timelineWidthPx = InitialWidthPx
  /\ timer = FALSE
  /\ delayedOnChangeTimestamp = << >>
  /\ delayedReportZoom = 0
  /\ lastOp = "constructor"
  /\ raised = FALSE
  /\ panned = NULL
  /\ otherCalls = << >>
  /\ changeCalls = << >>
  /\ liveCalls = << >>
  /\ expectedChange = NULL
  /\ superseding = FALSE
  /\ \E list \in ItemLists : LookupMenuConstructor(list)
  /\ TimestampTagConstructor(FALSE, DefaultIntervalMs)

NextLookupMenu ==
  \/ LookupMenuDidMount
  \/ \E list \in ItemLists : LookupMenuWillReceiveProps(list)
  \/ \E value \in QueryInputs : handleSearch(value)
  \/ \E key \in {"ArrowDown", "ArrowUp", "Enter", "Escape"} :
       handleKeyboardNavigation(key)

SpecLookupMenu == InitLookupMenu /\ [][NextLookupMenu]_vars

\* ---------------------------------------------------------------- TimestampTag
\*
\* The auto-refreshing timestamp of src/unnamed/part_001.  setInterval returns
\* a fresh positive id and keeps the interval until clearInterval gets that id.

\* clearInterval(id)
clearInterval(set, id) == {i \in set : i.id # id}

\* stopAutoRefresh()
stopAutoRefresh ==
  /\ intervals' = IF tagTimer # NULL THEN clearInterval(intervals, tagTimer)
                                      ELSE intervals
  /\ tagTimer' = NULL
  /\ UNCHANGED nextIntervalId

\* startAutoRefresh without the stopAutoRefresh() it begins with
startAutoRefreshWithoutStop(intervalMs) ==
  /\ nextIntervalId <= MaxTimerId
  /\ intervals' = intervals \cup {[id |-> nextIntervalId, intervalMs |-> intervalMs]}
  /\ tagTimer' = nextIntervalId
  /\ nextIntervalId' = nextIntervalId + 1

\* startAutoRefresh({intervalMs})
startAutoRefresh(intervalMs) ==
  /\ nextIntervalId <= MaxTimerId
  /\ intervals' = (IF tagTimer # NULL THEN clearInterval(intervals, tagTimer)
                                       ELSE intervals)
                     \cup {[id |-> nextIntervalId, intervalMs |-> intervalMs]}
  /\ tagTimer' = nextIntervalId
  /\ nextIntervalId' = nextIntervalId + 1

TimestampTagDidMount ==
  /\ tagPhase = "constructed"
  /\ tagPhase' = "mounted"
  /\ IF tagRelative
       THEN startAutoRefresh(tagIntervalMs)
       ELSE UNCHANGED <<tagTimer, intervals, nextIntervalId>>
  /\ tagOp' = "mount"
  /\ UNCHANGED <<tagRelative, tagIntervalMs, timeTravel, menu>>

TimestampTagWillReceiveProps(nextRelative, nextIntervalMs) ==
  /\ tagPhase = "mounted"
  /\ tagRelative' = nextRelative
  /\ tagIntervalMs' = nextIntervalMs
  /\ IF nextRelative
       THEN startAutoRefresh(nextIntervalMs)
       ELSE stopAutoRefresh
  /\ tagOp' = "props"
  /\ UNCHANGED <<tagPhase, timeTravel, menu>>

TimestampTagWillUnmount ==
  /\ tagPhase = "mounted"
  /\ tagPhase' = "unmounted"
  /\ stopAutoRefresh
  /\ tagOp' = "unmount"
  /\ UNCHANGED <<tagRelative, tagIntervalMs, timeTravel, menu>>

\* An interval elapses: its callback calls this.forceUpdate().
TimestampTagRefresh ==
  /\ intervals # {}
  /\ tagOp' = "refresh"
  /\ UNCHANGED <<tagPhase, tagRelative, tagIntervalMs, tagTimer, intervals,
                 nextIntervalId, timeTravel, menu>>

\* A page with a TimestampTag beside a TimeTravel and a LookupMenu left as
\* constructed.
InitTimestampTag ==
  /\ clock = ClockStart
  /\ phase = "constructed"
  /\ earliestTimestamp \in EarliestInputs
  /\ hasLiveMode = FALSE
  /\ propsShowingLive = TRUE
  /\ timestampNow = clock
  /\ propsTimestamp = NULL
  /\ callbacksSupplied = TRUE
  /\ focusedTimestamp = formattedTimestamp(propsTimestamp)
  /\ durationMsPerPixel = initialDurationMsPerTimelinePx(earliestTimestamp)
  /\ showingLive = propsShowingLive
  /\ rangeMs = DefaultRangeMs
  /\ timelineWidthPx = InitialWidthPx
  /\ timer = FALSE
  /\ delayedOnChangeTimestamp = << >>
  /\ delayedReportZoom = 0
  /\ lastOp = "constructor"
  /\ raised = FALSE
  /\ panned = NULL
  /\ otherCalls = << >>
  /\ changeCalls = << >>
  /\ liveCalls = << >>
  /\ expectedChange = NULL
  /\ superseding = FALSE
  /\ LookupMenuConstructor(<< >>)
  /\ \E relative \in BOOLEAN, intervalMs \in IntervalInputs :
       TimestampTagConstructor(relative, intervalMs)

NextTimestampTag ==
  \/ TimestampTagDidMount
  \/ \E relative \in BOOLEAN, intervalMs \in IntervalInputs :
       TimestampTagWillReceiveProps(relative, intervalMs)
  \/ TimestampTagWillUnmount
  \/ TimestampTagRefresh

SpecTimestampTag == InitTimestampTag /\ [][NextTimestampTag]_vars

\* ---------------------------------------------------------------- claims

\* maxDurationPerPixel(earliest, now) of the specification: the widest zoom for
\* the span from earliest to now (both in seconds)
maxDurationPerPixel(earliest, now) ==
  clamp((now - earliest) * ((MsPerSecond * QPerMs) \div FullRangePx),
        MinDurationMs * QPerMs, ThreeDaysMs * QPerMs)

\* C1: in every reachable state earliestTimestamp <= focusedTimestamp <=
\* timestampNow.  The constructor and componentWillReceiveProps store the
\* timestamp prop without clamping it, so the statement fails.
C1_FocusedWithinRange ==
  /\ earliestTimestamp <= focusedTimestamp
  /\ focusedTimestamp <= timestampNow

\* C2, as claimed: durationMsPerPixel lies between the 500 ms floor and the
\* widest zoom computed from the timestampNow of the component state.
C2_DurationWithinStateBounds ==
  /\ MinDurationMs * QPerMs <= durationMsPerPixel
  /\ durationMsPerPixel <= maxDurationPerPixel(earliestTimestamp, timestampNow)

\* C2, as amended: durationMsPerPixel lies between the 500 ms floor and the
\* widest zoom computed from the current wall clock, which clampedDuration reads
\* itself and which may be ahead of the timestampNow of the last tick.
C2_DurationWithinClockBounds ==
  /\ MinDurationMs * QPerMs <= durationMsPerPixel
  /\ durationMsPerPixel <= maxDurationPerPixel(earliestTimestamp, clock)

\* A zoom out to the widest level taken after the clock moved on and before the
\* next tick: the zoom exceeds the widest level of the state's timestampNow.
C2_Witness ==
  /\ lastOp = "zoom"
  /\ clock > timestampNow
  /\ durationMsPerPixel = maxDurationPerPixel(earliestTimestamp, clock)
  /\ durationMsPerPixel > maxDurationPerPixel(earliestTimestamp, timestampNow)

\* C3, as claimed: without live mode support showingLive is false in every
\* reachable state.
C3_NoLiveWithoutLiveMode == ~hasLiveMode => ~showingLive

\* C3, as amended: without live mode support showingLive is not forced to false
\* (it starts as the showingLive prop), but it is inert: only toggleLive(true)
\* turns it on, never the sticky switch of panRelease or panButton, and no tick
\* moves focusedTimestamp.
C3_ShowingLiveInertWithoutLiveMode ==
  [][~hasLiveMode =>
       /\ (~showingLive /\ showingLive') => lastOp' = "toggleLive"
       /\ lastOp' = "tick" => focusedTimestamp' = focusedTimestamp]_vars

\* Live mode is not supported, showingLive is true all the same, and a tick has
\* left focusedTimestamp behind timestampNow.
C3_Witness ==
  /\ ~hasLiveMode
  /\ showingLive
  /\ lastOp = "tick"
  /\ focusedTimestamp < timestampNow

\* C4, as claimed: right after toggleLive(true), and right after every tick
\* taken while showingLive is true, focusedTimestamp = timestampNow.
C4_ShowingLiveFollowsNow ==
  (lastOp \in {"toggleLive", "tick"} /\ showingLive)
    => focusedTimestamp = timestampNow

\* C4, as amended: right after toggleLive(true), and right after every tick
\* taken while hasLiveMode and showingLive are both true, focusedTimestamp =
\* timestampNow.
C4_LiveModeFollowsNow ==
  /\ (lastOp = "toggleLive" /\ showingLive) => focusedTimestamp = timestampNow
  /\ (lastOp = "tick" /\ hasLiveMode /\ showingLive)
       => focusedTimestamp = timestampNow

\* A tick in live mode has moved timestampNow on, and focusedTimestamp with it.
C4_Witness ==
  /\ lastOp = "tick"
  /\ hasLiveMode
  /\ showingLive
  /\ timestampNow > ClockStart
  /\ focusedTimestamp = timestampNow

\* C5: a pan delivers nothing at once and leaves exactly one notification
\* pending, carrying the clamped value of that last pan, whatever was pending
\* before; nothing but a cancellation or the delivery changes that, and the
\* delivery invokes onChangeTimestamp once, with that value, and leaves nothing
\* pending to fire a second time.
C5_LaterPanSupersedes ==
  [][/\ delayedOnChangeTimestamp' # << >>
          => delayedOnChangeTimestamp' = <<expectedChange'>>
     /\ lastOp' = "pan"
          => changeCalls' = << >> /\ delayedOnChangeTimestamp' # << >>
     /\ FireOnChangeTimestamp
          => /\ changeCalls' = <<expectedChange>>
             /\ delayedOnChangeTimestamp' = << >>]_vars

\* A second pan, to another value, has replaced the pending notification of a
\* first one.
C5_Witness ==
  /\ lastOp = "pan"
  /\ superseding
  /\ delayedOnChangeTimestamp = <<expectedChange>>
  /\ changeCalls = << >>

\* C6: right after a jump no Change-channel notification is pending, for every
\* timestamp jumped to.  setFocusedTimestamp cancels only when the clamped
\* timestamp differs from focusedTimestamp, so the statement fails.
C6_JumpCancelsPending ==
  lastOp = "jump" => delayedOnChangeTimestamp = << >>

\* C7: right after a toggleLive of a component that supports live mode no
\* Change-channel notification is pending.  handleLiveModeToggle never cancels,
\* so the statement fails.
C7_ToggleLiveCancelsPending ==
  (lastOp = "toggleLive" /\ hasLiveMode) => delayedOnChangeTimestamp = << >>

\* C8: an external prop update arriving while the component is in live mode
\* (live mode supported and the showingLive state true) leaves focusedTimestamp
\* unchanged.  componentWillReceiveProps tests the showingLive props, not the
\* state, so the statement fails.
C8_PropsIgnoredWhileLive ==
  [][(lastOp' = "props" /\ hasLiveMode /\ showingLive)
       => focusedTimestamp' = focusedTimestamp]_vars

\* C9: an external prop update that repeats the timestamp prop the component
\* already had, arriving while a pan notification is pending, leaves
\* focusedTimestamp unchanged.  componentWillReceiveProps never looks at the
\* Change channel, so the statement fails.
C9_StalePropsIgnoredWhilePending ==
  [][(lastOp' = "props" /\ delayedOnChangeTimestamp # << >>
        /\ propsTimestamp' = propsTimestamp)
       => focusedTimestamp' = focusedTimestamp]_vars

\* C10: every step of a component that supports live mode that changes
\* showingLive invokes onChangeLiveMode with the new value.  Only
\* handleLiveModeToggle invokes it, so the statement fails.
C10_LiveModeChangeNotified ==
  [][(hasLiveMode /\ showingLive' # showingLive)
       => liveCalls' = <<showingLive'>>]_vars

\* C11: every step of pan, panRelease, panButton, jump, direct input,
\* toggleLive or tick of a component that supports live mode that changes
\* focusedTimestamp hands the new value to onChangeTimestamp, at once or, for
\* pan, as the pending call of the Change channel.  handleLiveModeToggle and the
\* interval callback set focusedTimestamp without any call, so the statement
\* fails.
C11_EveryChangeNotified ==
  [][(/\ hasLiveMode
      /\ focusedTimestamp' # focusedTimestamp
      /\ lastOp' \in {"pan", "panRelease", "panButton", "jump", "input",
                      "toggleLive", "tick"})
       => \/ changeCalls' = <<focusedTimestamp'>>
          \/ lastOp' = "pan" /\ delayedOnChangeTimestamp' = <<focusedTimestamp'>>]_vars

C13_NoOperationRaises ==
  (/\ ~callbacksSupplied
   /\ lastOp \in {"jump", "input", "panButton", "pan", "panRelease", "zoom"})
    => ~raised

\* "now" lies less than px pixels from the focus point, on either side, under
\* the hypothetical raw focusedTimestamp focused and the current zoom
withinPixelsOfNow(focused, px) ==
  /\ timeScaleBelow(focused, durationMsPerPixel, moment(timestampNow), px)
  /\ timeScaleBelow(moment(timestampNow), durationMsPerPixel, focused, px)

\* C14: for every timestamp a pan button hands in, the heuristic recommends
\* the switch to live mode (and the step makes it) if and only if "now" is
\* within 10 px of the focus point under that hypothetical focusedTimestamp,
\* live mode is supported and showingLive is false.
\* shouldStickySwitchToLiveMode tests the signed offset
\* against 10, so "now" far to the left of the focus point is recommended too
\* and the statement fails.
C14_StickyIffWithinTenPixels ==
  [][\A t \in RawTimestampInputs :
       handleTimelinePanButtonClick(t)
         => /\ shouldStickySwitchToLiveMode(t)
                 <=> /\ withinPixelsOfNow(t, StickyThresholdPx)
                     /\ hasLiveMode
                     /\ ~showingLive
            /\ showingLive' <=> shouldStickySwitchToLiveMode(t)]_vars

\* C15: a panButton(t) of a component that supports live mode and is not live,
\* with t such that "now" is within 10 px of the focus point under it, ends
\* with showingLive true and focusedTimestamp = timestampNow; onChangeTimestamp
\* gets timestampNow or nothing, the step schedules nothing on the Change
\* channel, and the panned value clampedTimestamp(t), where it is not
\* timestampNow itself, is neither committed nor delivered.
C15_StickyPanButtonSnapsLive ==
  [][\A t \in RawTimestampInputs :
       (/\ lastOp' = "panButton"
        /\ hasLiveMode
        /\ ~showingLive
        /\ withinPixelsOfNow(t, StickyThresholdPx)
        /\ handleTimelinePanButtonClick(t))
         => /\ showingLive'
            /\ focusedTimestamp' = timestampNow
            /\ changeCalls' \in {<< >>, <<timestampNow>>}
            /\ delayedOnChangeTimestamp' \in {<< >>, delayedOnChangeTimestamp}
            /\ clampedTimestamp(t) # timestampNow
                 => /\ focusedTimestamp' # clampedTimestamp(t)
                    /\ changeCalls' # <<clampedTimestamp(t)>>]_vars

\* A pan button asked for a timestamp seconds before "now" and less than 10 px
\* from it: the component went live, focusedTimestamp moved to timestampNow
\* and onChangeTimestamp got timestampNow.
C15_Witness ==
  /\ lastOp = "panButton"
  /\ hasLiveMode
  /\ showingLive
  /\ panned < timestampNow
  /\ focusedTimestamp = timestampNow
  /\ changeCalls = <<timestampNow>>

\* C16: once the component is unmounted its interval is cleared and no step
\* after the unmount is a tick, so neither timestampNow nor focusedTimestamp is
\* changed by the periodic timer again.
C16_NoTickAfterUnmount ==
  phase = "unmounted" => (~timer /\ lastOp # "tick")

\* A component in live mode was unmounted and the second has turned since its
\* last tick: the tick that would have moved timestampNow and focusedTimestamp
\* is due.
C16_Witness ==
  /\ phase = "unmounted"
  /\ hasLiveMode
  /\ showingLive
  /\ clock > timestampNow
  /\ focusedTimestamp = timestampNow

TenDayScenario ==
  /\ earliestTimestamp = 0
  /\ clock = TenDays
  /\ timestampNow = TenDays

\* C18, as claimed: in the ten-day scenario the widest zoom is the span over
\* 400, which is 36,000,000 ms per pixel, below the ceiling of 3 days per
\* pixel.
C18_TenDayMaxIs36000000 ==
  TenDayScenario =>
    /\ maxDurationMsPerTimelinePx(earliestTimestamp) = 36000000 * QPerMs
    /\ maxDurationMsPerTimelinePx(earliestTimestamp) < ThreeDaysMs * QPerMs

\* C18, as amended: in the ten-day scenario the widest zoom is the span over
\* 400, which is 2,160,000 ms per pixel (36 minutes), below the ceiling of
\* 3 days per pixel, and it is the level every zoom stays within.
C18_TenDayMaxIs2160000 ==
  TenDayScenario =>
    /\ maxDurationMsPerTimelinePx(earliestTimestamp) = 2160000 * QPerMs
    /\ 2160000 = (TenDays * MsPerSecond) \div FullRangePx
    /\ maxDurationMsPerTimelinePx(earliestTimestamp) < ThreeDaysMs * QPerMs
    /\ lastOp = "zoom" => durationMsPerPixel <= 2160000 * QPerMs

\* In the ten-day scenario a zoom has gone out to the widest level, 2,160,000
\* ms per pixel.
C18_Witness ==
  /\ TenDayScenario
  /\ lastOp = "zoom"
  /\ durationMsPerPixel = 2160000 * QPerMs

\* x clipped into [lower, upper]
clip(x, lower, upper) ==
  IF x < lower THEN lower ELSE IF x > upper THEN upper ELSE x

\* C19: for every earliestTimestamp <= "now" the zoom level a component starts
\* with is a tenth of the widest level clipped into [500 ms, 60,000 ms], and it
\* lies between the 500 ms floor and the widest level; in the ten-day scenario
\* it is 60,000 ms per pixel.
C19_InitialDurationIsCappedTenth ==
  (lastOp \in {"constructor", "mount"} /\ earliestTimestamp <= timestampNow) =>
    /\ durationMsPerPixel =
         clip(maxDurationPerPixel(earliestTimestamp, timestampNow) \div 10,
              500 * QPerMs, 60000 * QPerMs)
    /\ 500 * QPerMs <= durationMsPerPixel
    /\ durationMsPerPixel <= maxDurationPerPixel(earliestTimestamp, timestampNow)
    /\ TenDayScenario => durationMsPerPixel = 60000 * QPerMs

\* A component constructed in the ten-day scenario: a tenth of the widest level
\* is 216,000 ms per pixel and the zoom starts at the cap of 60,000.
C19_Witness ==
  /\ TenDayScenario
  /\ lastOp = "constructor"
  /\ maxDurationPerPixel(earliestTimestamp, timestampNow) \div 10 = 216000 * QPerMs
  /\ durationMsPerPixel = 60000 * QPerMs

\* C20: in every reachable state of a LookupMenu softSelectedIndex is null or
\* an index of the list displayed, 0 <= softSelectedIndex <= length - 1.  A
\* search or an items update replaces the list and leaves softSelectedIndex as
\* it is, so the statement fails.
C20_SoftSelectedIndexValid ==
  \/ softSelectedIndex = NULL
  \/ 0 <= softSelectedIndex /\ softSelectedIndex <= Len(items) - 1

\* the items of list whose label contains q, letter case aside
containing(list, q) ==
  SelectSeq(list, LAMBDA i : includes(toLowerCase(i.label), toLowerCase(q)))

\* C21: after any sequence of searches and items-prop updates of a mounted
\* LookupMenu the list displayed is the filter of the current items prop by the
\* query entered last: all items when the query is empty, the items whose
\* label contains the query, letter case aside, otherwise, and the single
\* 'No items found' item when none does.  The code compares lodash lowerCase
\* of label and query, which also splits them into words, so the statement
\* fails.
C21_DisplayedIsFilterByQuery ==
  menuPhase = "mounted" =>
    items = IF query = << >>
              THEN propsItems
              ELSE IF containing(propsItems, query) = << >>
                     THEN <<NoItemsFound>>
                     ELSE containing(propsItems, query)

\* C22, as claimed: a jump to t, by a click on a timeline label or by direct
\* input in the timestamp box (which render() enables unless hasLiveMode and
\* showingLive are both true), leaves showingLive false and focusedTimestamp =
\* clampedTimestamp(t), and invokes onChangeTimestamp not at all when
\* clampedTimestamp(t) is the focusedTimestamp of before, once and with
\* clampedTimestamp(t) when it is not.  handleInputChange never sets
\* showingLive, so the statement fails.
C22_JumpAndInputPause ==
  [][lastOp' \in {"jump", "input"} =>
       \A t \in RawTimestampInputs :
         (\/ handleTimelineJump(t)
          \/ TimestampInputChange(t) /\ ~(hasLiveMode /\ showingLive))
           => /\ ~showingLive'
              /\ focusedTimestamp' = clampedTimestamp(t)
              /\ changeCalls' = IF clampedTimestamp(t) = focusedTimestamp
                                  THEN << >>
                                  ELSE <<clampedTimestamp(t)>>]_vars

\* C22, as amended: a click on a timeline label leaves showingLive false; a
\* direct input in the enabled timestamp box leaves showingLive as it was,
\* which is false in a component that supports live mode; both leave
\* focusedTimestamp = clampedTimestamp(t) and invoke onChangeTimestamp not at
\* all when clampedTimestamp(t) is the focusedTimestamp of before, once and
\* with clampedTimestamp(t) when it is not.
C22_JumpPausesInputKeepsMode ==
  [][lastOp' \in {"jump", "input"} =>
       \A t \in RawTimestampInputs :
         /\ handleTimelineJump(t) => ~showingLive'
         /\ (TimestampInputChange(t) /\ ~(hasLiveMode /\ showingLive))
              => /\ showingLive' = showingLive
                 /\ hasLiveMode => ~showingLive'
         /\ (\/ handleTimelineJump(t)
             \/ TimestampInputChange(t) /\ ~(hasLiveMode /\ showingLive))
              => /\ focusedTimestamp' = clampedTimestamp(t)
                 /\ changeCalls' = IF clampedTimestamp(t) = focusedTimestamp
                                     THEN << >>
                                     ELSE <<clampedTimestamp(t)>>]_vars

\* A direct input in a component without live mode support has moved
\* focusedTimestamp back and delivered it, and showingLive is still true.
C22_Witness ==
  /\ lastOp = "input"
  /\ ~hasLiveMode
  /\ showingLive
  /\ focusedTimestamp < timestampNow
  /\ changeCalls = <<focusedTimestamp>>

\* C23: showingLive turns from false to true only in a step of panRelease,
\* panButton or toggleLive(true); a pan to t always ends with showingLive false
\* and focusedTimestamp = clampedTimestamp(t), however close t is to
\* timestampNow, and invokes onChangeTimestamp not at all in the step.
C23_OnlyReleaseButtonToggleGoLive ==
  [][/\ (~showingLive /\ showingLive')
          => lastOp' \in {"panRelease", "panButton", "toggleLive"}
     /\ lastOp' = "pan"
          => \A t \in RawTimestampInputs :
               handleTimelinePan(t)
                 => /\ ~showingLive'
                    /\ focusedTimestamp' = clampedTimestamp(t)
                    /\ changeCalls' = << >>]_vars

\* A component that supports live mode was panned onto timestampNow itself:
\* it is not live, and nothing was delivered in the step.
C23_Witness ==
  /\ lastOp = "pan"
  /\ hasLiveMode
  /\ ~showingLive
  /\ focusedTimestamp = timestampNow
  /\ delayedOnChangeTimestamp = <<timestampNow>>
  /\ changeCalls = << >>

\* C24: a panRelease that follows a pan and finds the heuristic recommending
\* live ends with showingLive true and focusedTimestamp = timestampNow, has
\* delivered onChangeTimestamp(timestampNow) in the step and leaves nothing of
\* the pan pending on the Change channel; a panRelease that finds it not
\* recommending changes no state.  setFocusedTimestamp delivers and cancels
\* only when timestampNow differs from focusedTimestamp, so after a pan that
\* landed on timestampNow the statement fails.
C24_ReleaseGoesLiveAtOnce ==
  [][(lastOp = "pan" /\ handleTimelineRelease)
       => IF shouldStickySwitchToLiveMode(moment(focusedTimestamp))
            THEN /\ showingLive'
                 /\ focusedTimestamp' = timestampNow
                 /\ changeCalls' = <<timestampNow>>
                 /\ delayedOnChangeTimestamp' = << >>
            ELSE UNCHANGED state]_vars

\* C25: setRange(r) sets rangeMs to r and durationMsPerPixel to r over a third
\* of the width of the latest resize, clipped into [500 ms, the widest zoom],
\* invokes onChangeRange(r) once in the step and leaves focusedTimestamp,
\* showingLive and timestampNow unchanged; resize(w) sets timelineWidthPx to w
\* and changes nothing else, neither state nor channel, and invokes no
\* callback.
C25_SetRangeAndResizeEffects ==
  [][/\ \A r \in LongRangeInputs :
          handleRangeChange(r)
            => /\ rangeMs' = r
               /\ durationMsPerPixel' =
                    clip((3 * r * QPerMs) \div timelineWidthPx, 500 * QPerMs,
                         maxDurationPerPixel(earliestTimestamp, clock))
               /\ otherCalls' = <<<<"onChangeRange", r>>>>
               /\ changeCalls' = << >>
               /\ UNCHANGED <<focusedTimestamp, showingLive, timestampNow>>
     /\ \A w \in LongWidthInputs :
          handleTimelineResize(w)
            => /\ timelineWidthPx' = w
               /\ UNCHANGED <<timestampNow, focusedTimestamp, durationMsPerPixel,
                              showingLive, rangeMs, props, timer,
                              delayedOnChangeTimestamp, delayedReportZoom>>
               /\ changeCalls' = << >>
               /\ liveCalls' = << >>
               /\ otherCalls' = << >>]_vars

\* On ten days of history and after a resize to 1200 px, a range of 15 minutes
\* was selected: the zoom is 900,000 / 400 = 2250 ms per pixel, within the
\* bounds, where the width of 1 px of the constructor gives the widest zoom.
C25_Witness ==
  /\ TenDayScenario
  /\ lastOp = "setRange"
  /\ timelineWidthPx = 1200
  /\ rangeMs = 900000
  /\ durationMsPerPixel = 2250 * QPerMs
  /\ otherCalls = <<<<"onChangeRange", 900000>>>>

\* C26: the zoom calls made before the 5000 ms of the Telemetry channel run
\* out produce one report: a zoom reports nothing in its step and leaves
\* exactly one report pending, whatever was pending before; only a zoom or the
\* delivery changes what is pending; the delivery invokes onTimelineZoom once,
\* with the period of the durationMsPerPixel in force at the delivery (the
\* clamped value of the last zoom or setRange), and leaves nothing pending.
C26_ZoomBurstReportsOnce ==
  [][/\ \A d \in LongDurationInputs :
          handleTimelineZoom(d)
            => /\ delayedReportZoom' = 1
               /\ otherCalls' = << >>
     /\ delayedReportZoom' # delayedReportZoom
          => lastOp' \in {"zoom", "fireZoom"}
     /\ FireReportZoom
          => /\ otherCalls' = <<<<"onTimelineZoom", zoomedPeriod(durationMsPerPixel')>>>>
             /\ durationMsPerPixel' = durationMsPerPixel
             /\ delayedReportZoom' = 0]_vars

\* On ten days of history, after a resize to 1200 px: a zoom, then a range of
\* a day selected before the report was due (216,000 ms per pixel, which no
\* zoom of the model gives), then the report: it says "days", the period of
\* the zoom level in force.
C26_Witness ==
  /\ TenDayScenario
  /\ lastOp = "fireZoom"
  /\ timelineWidthPx = 1200
  /\ rangeMs = 86400000
  /\ durationMsPerPixel = 216000 * QPerMs
  /\ otherCalls = <<<<"onTimelineZoom", "days">>>>
  /\ delayedReportZoom = 0

\* C27: the two channels are independent.  A step of jump, direct input,
\* panButton, panRelease or pan, and the delivery of a pending
\* onChangeTimestamp call, leave the Telemetry channel as it was: a pending
\* report stays pending, and none is armed.  A zoom and the delivery of the
\* report leave the Change channel as it was and invoke no onChangeTimestamp.
C27_ChannelsIndependent ==
  [][/\ lastOp' \in {"jump", "input", "panButton", "panRelease", "pan",
                      "fireChange"}
          => /\ delayedReportZoom' = delayedReportZoom
             /\ \A i \in 1..Len(otherCalls') : otherCalls'[i][1] # "onTimelineZoom"
     /\ lastOp' \in {"zoom", "fireZoom"}
          => /\ delayedOnChangeTimestamp' = delayedOnChangeTimestamp
             /\ changeCalls' = << >>]_vars

\* A zoom was made while the notification of a pan was pending: the
\* notification is still pending, beside the report the zoom armed.
C27_Witness ==
  /\ lastOp = "zoom"
  /\ delayedOnChangeTimestamp = <<focusedTimestamp>>
  /\ focusedTimestamp < timestampNow
  /\ delayedReportZoom = 1
  /\ changeCalls = << >>

C29_NoCallbackAfterUnmount ==
  phase = "unmounted" =>
    /\ changeCalls = << >>
    /\ liveCalls = << >>
    /\ otherCalls = << >>

\* C30: in every reachable state of a TimestampTag at most one interval is
\* active; one is active exactly when the component is mounted and the props
\* received last have relative true; the active interval is the one this.timer
\* names and runs with the intervalMs received last; none is active after the
\* unmount.
C30_OneRefreshTimerWhileRelative ==
  /\ Cardinality(intervals) <= 1
  /\ intervals # {} <=> (tagPhase = "mounted" /\ tagRelative)
  /\ \A i \in intervals : i.id = tagTimer /\ i.intervalMs = tagIntervalMs
  /\ tagPhase = "unmounted" => intervals = {}

\* A mounted TimestampTag has started its third interval on a props update
\* that set intervalMs to 1000: it is the only one active.
C30_Witness ==
  /\ tagPhase = "mounted"
  /\ tagOp = "props"
  /\ tagRelative
  /\ tagIntervalMs = 1000
  /\ intervals = {[id |-> 3, intervalMs |-> 1000]}

====
